---- MODULE Spec2Model ----
(***************************************************************************)
(* Vehicle monitoring system with HCNG safety subsystem (src/main.py).     *)
(*                                                                         *)
(* Threads: the gas producer (GasSensor._read_loop), the telemetry         *)
(* producer (OBDInterface._read_loop), the control loop                    *)
(* (VehicleMonitorSystem._main_loop) and the stopping thread (main() ->    *)
(* VehicleMonitorSystem.stop()).                                           *)
(*                                                                         *)
(* Time: time.time() is the integer variable now, in units of 0.1 s.       *)
(* Tick advances it at any moment, up to a horizon. A sleep only delays a  *)
(* thread and the scheduler may stretch any delay, so the steps of a       *)
(* thread are taken at arbitrary times; a join with timeout returns when   *)
(* its thread has ended or its timeout has run out on the clock.           *)
(*                                                                         *)
(* A "with lock:" block is one atomic step; blocks of one lock therefore   *)
(* exclude each other. The test of a while loop and the pass it lets in    *)
(* are one step of a producer thread. The lock-level view (SpecLocks)      *)
(* takes the blocks apart, one step per statement.                         *)
(*                                                                         *)
(* Spec is the whole system; the components are also run alone: SpecGas    *)
(* (the gas monitor with the values of CONFIG), SpecFeed (the gas monitor  *)
(* on a scripted sample feed), SpecValve (the valve under any sequence of  *)
(* calls), SpecSched (the control loop over a long stretch of time).       *)
(***************************************************************************)
EXTENDS Integers, Sequences, FiniteSets, TLC

\* ------------------------------------------------------------------ bounds
\* Clock units followed after the start of the run: by the specification of
\* the gas monitor alone, and by the specifications of the whole system.
GasHorizon == 21
Horizon == 2
\* The whole system is run with a GasSensor whose config has a short window
\* and a short confirmation time (the class takes both from its config
\* argument); the gas monitor alone is run with the values of CONFIG.
SmallRate == 3
SmallConfirm == 1
\* Calls made on the valve when it is driven alone.
MaxCalls == 8
\* Updates each producer makes in the lock-level view.
MaxCycles == 2
\* Clock units followed when the control loop is run alone.
SchedHorizon == 21
\* The scripted sample feed: a sample is taken at most this long after the
\* sleep before it has ended, and the clock is followed this far.
Jitter == 1
FeedHorizon == 36
\* Shutdown: the stop signal arrives at most StopLatest clock units after the
\* start; the control loop and the gas thread, whose longest waits are short
\* sleeps, are followed for StopSlack units of a join, and the telemetry
\* thread, whose bus query can block, until its join times out.
StopLatest == 1
StopSlack == 1

\* --------------------------------------------------------------- constants
\* CONFIG['gas_sensor']; confirmation_time 2.0 s in clock units.
sample_rate == 10
confirmation_time == 20
warning_min == 200
critical_min == 400
gas_check_interval == 1
ai_check_interval == 5
display_interval == 20
ai_warning_min == 30
ai_critical_min == 70
\* join timeouts of stop(): 5 s for the control loop, 2 s for a producer
main_join_timeout == 50
producer_join_timeout == 20

\* time.time() at the start of the run: far above every interval, so that
\* (current_time - 0) >= interval holds for each sub-task in the first tick.
StartTime == display_interval
MaxTime == StartTime + Horizon

\* critical_start_time = None
None == 0 - 1

\* Values _read_adc can return (10-bit ADC: 0..1023).
RawValues == {0, 1023}
\* Anomaly scores (in percent) run_inference can produce.
ScoreValues == {0, 50, 100}

VARIABLES
    now,                  \* time.time()
    \* GasSensor
    config,               \* self.config: sample_rate, confirmation_time
    g_pc,                 \* position of _read_loop
    gas_running,          \* GasSensor.running
    readings,             \* deque(maxlen=window_size)
    critical_start_time,
    current_value, filtered_value, status,
    \* ValveController
    gpio_present,         \* GPIO is not None
    gpio_ready,           \* the GPIO setup in __init__ went through
    valve_open,
    gpio_line,            \* last output on the valve pin
    \* OBDInterface / AIInferenceEngine
    o_pc, obd_running, latest_data,
    latest_score, latest_status,
    \* VehicleMonitorSystem
    auto_shutoff,         \* config['valve']['auto_shutoff']
    running, emergency_shutdown,
    m_pc, current_time, last_gas_check, last_ai_check, last_display,
    s_pc,                 \* position of the stopping thread
    s_t0,                 \* time at which its present join began
    \* history
    run_first,            \* time of the first update of the present unbroken
                          \* run of filtered values >= critical_min
    spike,                \* the raw samples so far: "none" of them was
                          \* >= critical_min; a "single" one was and all
                          \* after it were < warning_min; else "broken"
    shutoff_calls,        \* calls of emergency_shutoff begun
    tick_log,             \* sub-tasks begun in the present tick, in order
    last_run,             \* per sub-task, current_time of the tick in which
                          \* it last began, or None
    fault,                \* the sub-task whose error was caught last in the
                          \* present tick, or "none"
    gas_events,           \* log events of the last gas update
    valve_events,         \* 'FUEL VALVE CLOSED' / 'Fuel valve OPENED' events
    valve_changes,        \* changes of valve_open
    valve_calls,          \* calls made on the valve by its driver
    feed,                 \* the scripted sample feed: samples fed, and the
                          \* time the sleep after the last one ends
    \* the lock-level view of the threads
    l_pc,                 \* position of each thread in its locked blocks
    holder,               \* the thread holding each lock, or "none"
    cycle,                \* number of the producer's present update
    cell,                 \* update that wrote each published field
    snap                  \* update each field of the reader's copy is from

gasVars == <<config, g_pc, gas_running, readings, critical_start_time, current_value,
             filtered_value, status>>
valveVars == <<gpio_present, gpio_ready, valve_open, gpio_line>>
obdVars == <<o_pc, obd_running, latest_data>>
aiVars == <<latest_score, latest_status>>
mainVars == <<m_pc, current_time, last_gas_check, last_ai_check, last_display,
              emergency_shutdown, fault, last_run>>
histGas == <<run_first, spike, gas_events, feed>>
valveHist == <<valve_events, valve_changes, valve_calls>>
lockVars == <<l_pc, holder, cycle, cell, snap>>
\* what only the component specifications below change
sideVars == <<valveHist, lockVars>>
stopVars == <<s_pc, s_t0>>
vars == <<now, gasVars, valveVars, obdVars, aiVars, auto_shutoff, running,
          mainVars, stopVars, histGas, shutoff_calls, tick_log, sideVars>>

\* ------------------------------------------------------------- GasSensor
\* window_size = int(config['sample_rate'] * 1.0)
window_size(cfg) == cfg.sample_rate * 1

RefConfig == [sample_rate |-> sample_rate,
              confirmation_time |-> confirmation_time]
SmallConfig == [sample_rate |-> SmallRate, confirmation_time |-> SmallConfirm]

RECURSIVE SumSeq(_)
SumSeq(s) == IF s = <<>> THEN 0 ELSE Head(s) + SumSeq(Tail(s))

\* deque(maxlen=n).append(x): the oldest sample is evicted when full.
DequeAppend(q, x, n) ==
    IF Len(q) < n THEN Append(q, x) ELSE Append(Tail(q), x)

\* sum(readings) / len(readings), kept as the exact fraction sum/n.
Mean(q) == [sum |-> SumSeq(q), n |-> Len(q)]

\* value >= threshold for a fraction
AtLeast(value, threshold) == value.sum >= threshold * value.n

\* _determine_status(value) called at time t with self.critical_start_time =
\* cst: the returned status and the new critical_start_time.
DetermineStatus_stale(value, t, cst, conf) ==
    IF AtLeast(value, critical_min)
    THEN LET start == IF cst = None THEN t ELSE cst
         IN  [status |-> IF (t - start) >= conf THEN "CRITICAL" ELSE "WARNING",
              cst |-> start]
    ELSE IF AtLeast(value, warning_min)
    THEN [status |-> "WARNING", cst |-> cst]
    ELSE [status |-> "SAFE", cst |-> None]

DetermineStatus_noConfirm(value, t, cst, conf) ==
    IF AtLeast(value, critical_min)
    THEN [status |-> "CRITICAL", cst |-> IF cst = None THEN t ELSE cst]
    ELSE IF AtLeast(value, warning_min)
    THEN [status |-> "WARNING", cst |-> None]
    ELSE [status |-> "SAFE", cst |-> None]

DetermineStatus_restarts(value, t, cst, conf) ==
    IF AtLeast(value, critical_min)
    THEN LET start == IF cst = None \/ (t - cst) >= conf THEN t ELSE cst
         IN  [status |-> IF cst # None /\ (t - cst) >= conf
                         THEN "CRITICAL" ELSE "WARNING",
              cst |-> start]
    ELSE IF AtLeast(value, warning_min)
    THEN [status |-> "WARNING", cst |-> None]
    ELSE [status |-> "SAFE", cst |-> None]

DetermineStatus(value, t, cst, conf) ==
    IF AtLeast(value, critical_min)
    THEN LET start == IF cst = None THEN t ELSE cst
         IN  [status |-> IF (t - start) >= conf THEN "CRITICAL" ELSE "WARNING",
              cst |-> start]
    ELSE IF AtLeast(value, warning_min)
    THEN [status |-> "WARNING", cst |-> None]
    ELSE [status |-> "SAFE", cst |-> None]

\* The events _determine_status logs in that call while self.status = st:
\* "detected" and "warning" through Logger.warning, "confirmed" through
\* Logger.critical.
StatusEvents(value, t, cst, conf, st) ==
    IF AtLeast(value, critical_min)
    THEN LET start == IF cst = None THEN t ELSE cst
         IN  (IF cst = None THEN {"detected"} ELSE {})
             \cup (IF (t - start) >= conf /\ st # "CRITICAL"
                   THEN {"confirmed"} ELSE {})
    ELSE IF AtLeast(value, warning_min) /\ st # "WARNING" THEN {"warning"}
    ELSE {}

\* One successful pass of the loop body: read the ADC, filter, determine the
\* status, publish the triple under data_lock, sleep.
GasStep(raw) ==
    /\ g_pc = "run"
    /\ gas_running
    /\ LET q == DequeAppend(readings, raw, window_size(config))
           filtered == Mean(q)
           d == DetermineStatus(filtered, now, critical_start_time,
                                config.confirmation_time)
       IN  /\ readings' = q
           /\ critical_start_time' = d.cst
           /\ current_value' = raw
           /\ filtered_value' = filtered
           /\ status' = d.status
    /\ UNCHANGED <<sideVars, now, config, g_pc, gas_running, valveVars, obdVars, aiVars,
                   auto_shutoff, running, mainVars, stopVars, shutoff_calls,
                   tick_log>>

GasUpdate(raw) == GasStep(raw) /\ UNCHANGED histGas

\* The history of the sample stream, recorded along a pass.
GasHistory(raw) ==
    /\ run_first' = IF AtLeast(filtered_value', critical_min)
                    THEN (IF run_first = None THEN now ELSE run_first)
                    ELSE None
    /\ gas_events' = StatusEvents(filtered_value', now, critical_start_time,
                                  config.confirmation_time, status)
    /\ spike' = IF raw >= critical_min
                THEN (IF spike = "none" THEN "single" ELSE "broken")
                ELSE IF raw < warning_min \/ spike = "none" THEN spike
                ELSE "broken"

GasUpdateRec(raw) == GasStep(raw) /\ GasHistory(raw) /\ UNCHANGED feed

GasReadFail_asZero ==
    /\ g_pc = "run"
    /\ gas_running
    /\ g_pc' = "backoff"
    /\ current_value' = 0
    /\ UNCHANGED <<sideVars, now, config, gas_running, readings,
                   critical_start_time, filtered_value, status, valveVars,
                   obdVars, aiVars, auto_shutoff, running, mainVars, stopVars,
                   histGas, shutoff_calls, tick_log>>

\* The samples of the scenario: 5 of 50, then 25 of 450.
Script == [i \in 1..30 |-> IF i <= 5 THEN 50 ELSE 450]

\* A pass of the loop in which _read_adc returns the next scripted sample;
\* the pass is made once the sleep of 1/sample_rate s (one clock unit) after
\* the pass before it is over.
FeedSample ==
    /\ feed.n < Len(Script)
    /\ now >= feed.due
    /\ GasStep(Script[feed.n + 1])
    /\ GasHistory(Script[feed.n + 1])
    /\ feed' = [n |-> feed.n + 1, due |-> now + 1]

\* _read_adc raises: the error is logged and the loop backs off for 1 s.
GasReadFail ==
    /\ g_pc = "run"
    /\ gas_running
    /\ g_pc' = "backoff"
    /\ UNCHANGED <<sideVars, now, config, gas_running, readings, critical_start_time,
                   current_value, filtered_value, status, valveVars, obdVars,
                   aiVars, auto_shutoff, running, mainVars, stopVars, histGas,
                   shutoff_calls, tick_log>>

\* The back-off sleep ends; the loop tests self.running again.
GasRetry ==
    /\ g_pc = "backoff"
    /\ g_pc' = "run"
    /\ UNCHANGED <<sideVars, now, config, gas_running, readings, critical_start_time,
                   current_value, filtered_value, status, valveVars, obdVars,
                   aiVars, auto_shutoff, running, mainVars, stopVars, histGas,
                   shutoff_calls, tick_log>>

\* while self.running: is false, the thread ends.
GasExit ==
    /\ g_pc = "run"
    /\ ~gas_running
    /\ g_pc' = "exited"
    /\ UNCHANGED <<sideVars, now, config, gas_running, readings, critical_start_time,
                   current_value, filtered_value, status, valveVars, obdVars,
                   aiVars, auto_shutoff, running, mainVars, stopVars, histGas,
                   shutoff_calls, tick_log>>

\* ------------------------------------------------------- ValveController
\* _set_gpio_state(open): the output on the valve pin afterwards; nothing is
\* written when GPIO is None.
SetGpioState(open, line, present) ==
    IF present THEN (IF open THEN "OPEN" ELSE "CLOSED") ELSE line

\* GPIO.output() on a pin whose setup did not go through raises.
GpioOutputRaises(present, ready) == present /\ ~ready

\* The pin is set up as an output: its setup went through and GPIO.cleanup
\* has not released it.
PinReady(ready, line) == ready /\ line # "RELEASED"

\* close_valve(reason) under state_lock on a valve whose state is open: the
\* state and the pin output afterwards, whether the call raised, and the
\* number of 'FUEL VALVE CLOSED' events logged.
CloseValve(open, line, present, ready) ==
    IF ~open
    THEN [valve_open |-> open, line |-> line, raised |-> FALSE, events |-> 0]
    ELSE IF GpioOutputRaises(present, ready)
    THEN [valve_open |-> open, line |-> line, raised |-> TRUE, events |-> 0]
    ELSE [valve_open |-> FALSE, line |-> SetGpioState(FALSE, line, present),
          raised |-> FALSE, events |-> 1]

\* open_valve() under state_lock, likewise with its 'Fuel valve OPENED' event.
OpenValve(open, line, present, ready) ==
    IF open
    THEN [valve_open |-> open, line |-> line, raised |-> FALSE, events |-> 0]
    ELSE IF GpioOutputRaises(present, ready)
    THEN [valve_open |-> open, line |-> line, raised |-> TRUE, events |-> 0]
    ELSE [valve_open |-> TRUE, line |-> SetGpioState(TRUE, line, present),
          raised |-> FALSE, events |-> 1]

\* emergency_shutoff(): close_valve, sleep(0.1), the CLOSED output once more;
\* an error of close_valve ends the call.
EmergencyShutoff(open, line, present, ready) ==
    LET r == CloseValve(open, line, present, ready)
    IN  IF r.raised \/ GpioOutputRaises(present, ready) THEN [r EXCEPT !.raised = TRUE]
        ELSE [r EXCEPT !.line = SetGpioState(FALSE, r.line, present)]

\* One call made on the valve by a driver that calls it in any order; the
\* events logged and the changes of valve_open are counted.
ValveCall(kind) ==
    /\ valve_calls.n < MaxCalls
    /\ LET r == CASE kind = "open" ->
                        OpenValve(valve_open, gpio_line, gpio_present, gpio_ready)
                   [] kind = "close" ->
                        CloseValve(valve_open, gpio_line, gpio_present, gpio_ready)
                   [] kind = "emergency" ->
                        EmergencyShutoff(valve_open, gpio_line, gpio_present,
                                         gpio_ready)
       IN  /\ valve_open' = r.valve_open
           /\ gpio_line' = r.line
           /\ valve_events' = valve_events + r.events
           /\ valve_changes' = valve_changes
                                  + (IF r.valve_open # valve_open THEN 1 ELSE 0)
    /\ valve_calls' = [n |-> valve_calls.n + 1, last |-> kind]
    /\ UNCHANGED <<now, gasVars, gpio_present, gpio_ready, obdVars, aiVars,
                   auto_shutoff, running, mainVars, stopVars, histGas,
                   shutoff_calls, tick_log, lockVars>>

CallOpenValve == ValveCall("open")
CallCloseValve == ValveCall("close")
CallEmergencyShutoff == ValveCall("emergency")

\* ---------------------------------------------------------- OBDInterface
\* One polling cycle that got at least one channel: latest_data is replaced
\* by the new snapshot with its timestamp.
ObdPublish ==
    /\ o_pc = "run"
    /\ obd_running
    /\ latest_data' = "sample"
    /\ UNCHANGED <<sideVars, now, gasVars, valveVars, o_pc, obd_running, aiVars,
                   auto_shutoff, running, mainVars, stopVars, histGas,
                   shutoff_calls, tick_log>>

ObdExit ==
    /\ o_pc = "run"
    /\ ~obd_running
    /\ o_pc' = "exited"
    /\ UNCHANGED <<sideVars, now, gasVars, valveVars, obd_running, latest_data, aiVars,
                   auto_shutoff, running, mainVars, stopVars, histGas,
                   shutoff_calls, tick_log>>

\* connection.query() blocks (up to its timeout, for each channel) ...
ObdQueryBlock ==
    /\ o_pc = "run"
    /\ obd_running
    /\ o_pc' = "query"
    /\ UNCHANGED <<sideVars, now, gasVars, valveVars, obd_running, latest_data,
                   aiVars, auto_shutoff, running, mainVars, stopVars, histGas,
                   shutoff_calls, tick_log>>

\* ... and returns null for every channel: nothing is published, and after
\* the sleep the loop tests self.running again.
ObdQueryReturn ==
    /\ o_pc = "query"
    /\ o_pc' = "run"
    /\ UNCHANGED <<sideVars, now, gasVars, valveVars, obd_running, latest_data,
                   aiVars, auto_shutoff, running, mainVars, stopVars, histGas,
                   shutoff_calls, tick_log>>

\* ------------------------------------------------------ AIInferenceEngine
\* The classification of a score (in percent).
Classify(score) ==
    IF score >= ai_critical_min THEN "CRITICAL"
    ELSE IF score >= ai_warning_min THEN "WARNING"
    ELSE "NORMAL"

\* --------------------------------------------------- VehicleMonitorSystem
\* The statement order of one pass of the while loop: the loop test, the
\* three sub-tasks in priority order, back to the loop test.
NextPc_aiFirst(pc) ==
    CASE pc = "loop" -> "p2"
      [] pc = "p2" -> "p1"
      [] pc = "p1" -> "p3"
      [] pc = "p3" -> "loop"

NextPc(pc) ==
    CASE pc = "loop" -> "p1"
      [] pc = "p1" -> "p2"
      [] pc = "p2" -> "p3"
      [] pc = "p3" -> "loop"

\* The test of _check_gas_safety on the status it has read.
ShouldShutoff(st, auto, emergency) ==
    st = "CRITICAL" /\ auto /\ ~emergency

MainLoopTest_runningOnly ==
    /\ m_pc = "loop"
    /\ IF running
       THEN /\ current_time' = now
            /\ m_pc' = NextPc("loop")
            /\ tick_log' = <<>>
            /\ fault' = "none"
       ELSE /\ m_pc' = "ended"
            /\ UNCHANGED <<current_time, tick_log>>
    /\ UNCHANGED <<sideVars, now, gasVars, valveVars, obdVars, aiVars, auto_shutoff,
                   running, last_gas_check, last_ai_check, last_display,
                   emergency_shutdown, stopVars, histGas, shutoff_calls, fault, last_run>>

\* while self.running and not self.emergency_shutdown: begin a tick by
\* reading the clock, or leave the loop.
MainLoopTest ==
    /\ m_pc = "loop"
    /\ IF running /\ ~emergency_shutdown
       THEN /\ current_time' = now
            /\ m_pc' = NextPc("loop")
            /\ tick_log' = <<>>
            /\ fault' = "none"
       ELSE /\ m_pc' = "ended"
            /\ UNCHANGED <<current_time, tick_log>>
    /\ UNCHANGED <<sideVars, now, gasVars, valveVars, obdVars, aiVars, auto_shutoff,
                   running, last_gas_check, last_ai_check, last_display,
                   emergency_shutdown, stopVars, histGas,
                   shutoff_calls, fault, last_run>>

MainGasSkip_always ==
    /\ m_pc = "p1"
    /\ m_pc' = NextPc("p1")
    /\ UNCHANGED <<sideVars, now, gasVars, valveVars, obdVars, aiVars,
                   auto_shutoff, running, current_time, last_gas_check,
                   last_ai_check, last_display, emergency_shutdown, stopVars,
                   histGas, shutoff_calls, tick_log, fault, last_run>>

MainGasSkip ==
    /\ m_pc = "p1"
    /\ ~((current_time - last_gas_check) >= gas_check_interval)
    /\ m_pc' = NextPc("p1")
    /\ UNCHANGED <<sideVars, now, gasVars, valveVars, obdVars, aiVars, auto_shutoff,
                   running, current_time, last_gas_check, last_ai_check,
                   last_display, emergency_shutdown, stopVars, histGas,
                   shutoff_calls, tick_log, fault, last_run>>

\* _check_gas_safety: get_reading() under data_lock, then the decision. With
\* no shutoff the call returns and last_gas_check is set.
MainCheckGas ==
    /\ m_pc = "p1"
    /\ (current_time - last_gas_check) >= gas_check_interval
    /\ last_run' = [last_run EXCEPT !.gas = current_time]
    /\ tick_log' = Append(tick_log, "gas")
    /\ IF ShouldShutoff(status, auto_shutoff, emergency_shutdown)
       THEN /\ m_pc' = "close"
            /\ shutoff_calls' = IF shutoff_calls < 2 THEN shutoff_calls + 1
                                ELSE shutoff_calls
            /\ UNCHANGED last_gas_check
       ELSE /\ m_pc' = NextPc("p1")
            /\ last_gas_check' = current_time
            /\ UNCHANGED shutoff_calls
    /\ UNCHANGED <<sideVars, now, gasVars, valveVars, obdVars, aiVars, auto_shutoff,
                   running, current_time, last_ai_check, last_display,
                   emergency_shutdown, stopVars, histGas, fault>>

\* emergency_shutoff, first part: close_valve('EMERGENCY ...') under
\* state_lock. An error it raises leaves emergency_shutoff and is caught by
\* the except clause of _check_gas_safety, which logs it and returns.
MainEmergencyClose ==
    /\ m_pc = "close"
    /\ LET r == CloseValve(valve_open, gpio_line, gpio_present,
                           PinReady(gpio_ready, gpio_line))
       IN  /\ gpio_line' = r.line
           /\ valve_open' = r.valve_open
           /\ IF r.raised
              THEN /\ fault' = "gas"
                   /\ last_gas_check' = current_time
                   /\ m_pc' = NextPc("p1")
              ELSE /\ m_pc' = "reassert"
                   /\ UNCHANGED <<fault, last_gas_check>>
    /\ UNCHANGED <<sideVars, now, gasVars, gpio_present, gpio_ready, obdVars, aiVars,
                   auto_shutoff, running, current_time, last_ai_check,
                   last_display, emergency_shutdown, stopVars, histGas,
                   shutoff_calls, tick_log, last_run>>

\* emergency_shutoff, second part: after sleep(0.1) the CLOSED output is
\* written once more, outside state_lock.
MainEmergencyReassert ==
    /\ m_pc = "reassert"
    /\ IF GpioOutputRaises(gpio_present, PinReady(gpio_ready, gpio_line))
       THEN /\ fault' = "gas"
            /\ last_gas_check' = current_time
            /\ m_pc' = NextPc("p1")
            /\ UNCHANGED gpio_line
       ELSE /\ gpio_line' = SetGpioState(FALSE, gpio_line, gpio_present)
            /\ m_pc' = "setflag"
            /\ UNCHANGED <<fault, last_gas_check>>
    /\ UNCHANGED <<sideVars, now, gasVars, gpio_present, gpio_ready, valve_open,
                   obdVars, aiVars, auto_shutoff, running, current_time,
                   last_ai_check, last_display, emergency_shutdown, stopVars,
                   histGas, shutoff_calls, tick_log, last_run>>

\* self.emergency_shutdown = True; the gas check returns.
MainSetEmergency ==
    /\ m_pc = "setflag"
    /\ emergency_shutdown' = TRUE
    /\ last_gas_check' = current_time
    /\ m_pc' = NextPc("p1")
    /\ UNCHANGED <<sideVars, now, gasVars, valveVars, obdVars, aiVars, auto_shutoff,
                   running, current_time, last_ai_check, last_display,
                   stopVars, histGas, shutoff_calls, tick_log, fault, last_run>>

MainAiSkip ==
    /\ m_pc = "p2"
    /\ ~((current_time - last_ai_check) >= ai_check_interval)
    /\ m_pc' = NextPc("p2")
    /\ UNCHANGED <<sideVars, now, gasVars, valveVars, obdVars, aiVars, auto_shutoff,
                   running, current_time, last_gas_check, last_ai_check,
                   last_display, emergency_shutdown, stopVars, histGas,
                   shutoff_calls, tick_log, fault, last_run>>

\* _run_ai_inference: the snapshot is scored only if it carries a timestamp.
MainRunAi ==
    /\ m_pc = "p2"
    /\ (current_time - last_ai_check) >= ai_check_interval
    /\ last_run' = [last_run EXCEPT !.ai = current_time]
    /\ tick_log' = Append(tick_log, "ai")
    /\ IF latest_data = "sample"
       THEN \E score \in ScoreValues :
                /\ latest_score' = score
                /\ latest_status' = Classify(score)
       ELSE UNCHANGED aiVars
    /\ last_ai_check' = current_time
    /\ m_pc' = NextPc("p2")
    /\ UNCHANGED <<sideVars, now, gasVars, valveVars, obdVars, auto_shutoff, running,
                   current_time, last_gas_check, last_display,
                   emergency_shutdown, stopVars, histGas, shutoff_calls, fault>>

\* _run_ai_inference on a snapshot run_inference fails on: the error is caught
\* inside run_inference, which logs it and returns (0.0, 'ERROR'); the latest
\* result is left as it was.
MainRunAiError ==
    /\ m_pc = "p2"
    /\ (current_time - last_ai_check) >= ai_check_interval
    /\ latest_data = "sample"
    /\ last_run' = [last_run EXCEPT !.ai = current_time]
    /\ tick_log' = Append(tick_log, "ai")
    /\ fault' = "ai"
    /\ last_ai_check' = current_time
    /\ m_pc' = NextPc("p2")
    /\ UNCHANGED <<sideVars, now, gasVars, valveVars, obdVars, aiVars, auto_shutoff,
                   running, current_time, last_gas_check, last_display,
                   emergency_shutdown, stopVars, histGas, shutoff_calls>>

MainDisplaySkip ==
    /\ m_pc = "p3"
    /\ ~((current_time - last_display) >= display_interval)
    /\ m_pc' = NextPc("p3")
    /\ UNCHANGED <<sideVars, now, gasVars, valveVars, obdVars, aiVars, auto_shutoff,
                   running, current_time, last_gas_check, last_ai_check,
                   last_display, emergency_shutdown, stopVars, histGas,
                   shutoff_calls, tick_log, fault, last_run>>

\* _display_status reads every component and prints; then sleep(0.01).
MainDisplay ==
    /\ m_pc = "p3"
    /\ (current_time - last_display) >= display_interval
    /\ last_run' = [last_run EXCEPT !.display = current_time]
    /\ tick_log' = Append(tick_log, "display")
    /\ last_display' = current_time
    /\ m_pc' = NextPc("p3")
    /\ UNCHANGED <<sideVars, now, gasVars, valveVars, obdVars, aiVars, auto_shutoff,
                   running, current_time, last_gas_check, last_ai_check,
                   emergency_shutdown, stopVars, histGas,
                   shutoff_calls, fault>>

MainDisplayError_fatal ==
    /\ m_pc = "p3"
    /\ (current_time - last_display) >= display_interval
    /\ tick_log' = Append(tick_log, "display")
    /\ last_run' = [last_run EXCEPT !.display = current_time]
    /\ fault' = "display"
    /\ last_display' = current_time
    /\ m_pc' = "ended"
    /\ UNCHANGED <<sideVars, now, gasVars, valveVars, obdVars, aiVars,
                   auto_shutoff, running, current_time, last_gas_check,
                   last_ai_check, emergency_shutdown, stopVars, histGas,
                   shutoff_calls>>

\* _display_status raises while it reads or prints: the error is caught by
\* its except clause and logged.
MainDisplayError ==
    /\ m_pc = "p3"
    /\ (current_time - last_display) >= display_interval
    /\ last_run' = [last_run EXCEPT !.display = current_time]
    /\ tick_log' = Append(tick_log, "display")
    /\ fault' = "display"
    /\ last_display' = current_time
    /\ m_pc' = NextPc("p3")
    /\ UNCHANGED <<sideVars, now, gasVars, valveVars, obdVars, aiVars, auto_shutoff,
                   running, current_time, last_gas_check, last_ai_check,
                   emergency_shutdown, stopVars, histGas,
                   shutoff_calls>>

\* ------------------------------------------- VehicleMonitorSystem.stop()
\* thread.join(timeout) begun at time t0 returns once the thread has ended or
\* the timeout has run out.
JoinReturns(ended, t0, timeout) == ended \/ (now - t0) >= timeout

StopBegin_resetsFlag ==
    /\ s_pc = "run"
    /\ running' = FALSE
    /\ emergency_shutdown' = FALSE
    /\ s_pc' = "join_main"
    /\ s_t0' = now
    /\ UNCHANGED <<sideVars, now, gasVars, valveVars, obdVars, aiVars, auto_shutoff,
                   m_pc, current_time, last_gas_check, last_ai_check,
                   last_display, fault, last_run, histGas, shutoff_calls,
                   tick_log>>

\* The stop signal arrives: self.running = False, then join the loop.
StopBegin ==
    /\ s_pc = "run"
    /\ running' = FALSE
    /\ s_pc' = "join_main"
    /\ s_t0' = now
    /\ UNCHANGED <<sideVars, now, gasVars, valveVars, obdVars, aiVars, auto_shutoff,
                   mainVars, histGas, shutoff_calls, tick_log>>

\* main_thread.join(timeout=5) returns; gas_sensor.stop() then sets its
\* running = False and joins the gas thread.
StopGas ==
    /\ s_pc = "join_main"
    /\ JoinReturns(m_pc = "ended", s_t0, main_join_timeout)
    /\ gas_running' = FALSE
    /\ s_pc' = "join_gas"
    /\ s_t0' = now
    /\ UNCHANGED <<sideVars, now, config, g_pc, readings, critical_start_time,
                   current_value, filtered_value, status, valveVars, obdVars,
                   aiVars, auto_shutoff, running, mainVars, histGas,
                   shutoff_calls, tick_log>>

StopObd_keepsRunning ==
    /\ s_pc = "join_gas"
    /\ JoinReturns(g_pc = "exited", s_t0, producer_join_timeout)
    /\ s_pc' = "join_obd"
    /\ s_t0' = now
    /\ UNCHANGED <<sideVars, now, gasVars, valveVars, obdVars, aiVars,
                   auto_shutoff, running, mainVars, histGas, shutoff_calls,
                   tick_log>>

\* read_thread.join(timeout=2) returns and the bus is closed; obd.stop()
\* then sets its running = False and joins the OBD thread.
StopObd ==
    /\ s_pc = "join_gas"
    /\ JoinReturns(g_pc = "exited", s_t0, producer_join_timeout)
    /\ obd_running' = FALSE
    /\ s_pc' = "join_obd"
    /\ s_t0' = now
    /\ UNCHANGED <<sideVars, now, gasVars, valveVars, o_pc, latest_data, aiVars,
                   auto_shutoff, running, mainVars, histGas, shutoff_calls,
                   tick_log>>

\* The last join returns and the connection is closed; valve.cleanup() then,
\* with GPIO present, calls open_valve() under state_lock; without GPIO
\* cleanup does nothing, and an error of open_valve is swallowed and ends it.
ValveCleanupOpen ==
    /\ s_pc = "join_obd"
    /\ JoinReturns(o_pc = "exited", s_t0, producer_join_timeout)
    /\ IF gpio_present
       THEN LET r == OpenValve(valve_open, gpio_line, gpio_present,
                               PinReady(gpio_ready, gpio_line))
            IN  /\ gpio_line' = r.line
                /\ valve_open' = r.valve_open
                /\ s_pc' = IF r.raised THEN "done" ELSE "release"
       ELSE /\ s_pc' = "done"
            /\ UNCHANGED <<gpio_line, valve_open>>
    /\ UNCHANGED <<sideVars, now, gasVars, gpio_present, gpio_ready, obdVars, aiVars, auto_shutoff,
                   running, mainVars, s_t0, histGas, shutoff_calls, tick_log>>

\* valve.cleanup(), second part: after sleep(0.1), GPIO.cleanup(pin) releases
\* the pin.
ValveCleanupRelease ==
    /\ s_pc = "release"
    /\ gpio_line' = "RELEASED"
    /\ s_pc' = "done"
    /\ UNCHANGED <<sideVars, now, gasVars, gpio_present, gpio_ready, valve_open, obdVars, aiVars,
                   auto_shutoff, running, mainVars, s_t0, histGas,
                   shutoff_calls, tick_log>>

\* ------------------------------------------------------------------ clock
TickTo(limit) ==
    /\ now < limit
    /\ now' = now + 1
    /\ UNCHANGED <<sideVars, gasVars, valveVars, obdVars, aiVars, auto_shutoff, running,
                   mainVars, stopVars, histGas, shutoff_calls, tick_log>>

Tick == TickTo(MaxTime)
TickGas == TickTo(StartTime + GasHorizon)

\* ---------------------------------------------------- the lock-level view
\* The statements of each thread around its "with lock:" blocks, one step
\* per statement: [op, arg, next]. op is "io" (sensor or bus I/O, which
\* begins a new update of a producer), "output" (GPIO.output), "print"
\* (console/log output), "sleep", "acquire"/"release" of the lock arg,
\* "write"/"read" of the published field arg, or "set" (an assignment that
\* is of no interest here).
Step(op, arg, next) == [op |-> op, arg |-> arg, next |-> next]

\* GasSensor._read_loop
GasProgram ==
    [g_io |-> Step("io", "adc", {"g_acq"}),
     g_acq |-> Step("acquire", "gas_data", {"g_w1"}),
     g_w1 |-> Step("write", "raw", {"g_w2"}),
     g_w2 |-> Step("write", "filtered", {"g_w3"}),
     g_w3 |-> Step("write", "status", {"g_rel"}),
     g_rel |-> Step("release", "gas_data", {"g_sleep"}),
     g_sleep |-> Step("sleep", "", {"g_io"})]

\* OBDInterface._read_loop; a cycle that got no channel publishes nothing.
ObdProgram ==
    [o_io |-> Step("io", "query", {"o_acq", "o_sleep"}),
     o_acq |-> Step("acquire", "obd_data", {"o_w1"}),
     o_w1 |-> Step("write", "data", {"o_w2"}),
     o_w2 |-> Step("write", "ts", {"o_rel"}),
     o_rel |-> Step("release", "obd_data", {"o_sleep"}),
     o_sleep |-> Step("sleep", "", {"o_io"})]

\* One tick of _main_loop: get_reading; on CRITICAL emergency_shutoff with
\* close_valve; get_latest_data; run_inference publishing its result;
\* _display_status with its reads get_latest_data, get_reading, get_voltage,
\* get_latest_result and is_open; sleep.
CtlProgram ==
    [c_gacq |-> Step("acquire", "gas_data", {"c_gr1"}),
     c_gr1 |-> Step("read", "raw", {"c_gr2"}),
     c_gr2 |-> Step("read", "filtered", {"c_gr3"}),
     c_gr3 |-> Step("read", "status", {"c_grel"}),
     c_grel |-> Step("release", "gas_data", {"c_elog", "c_oacq"}),
     c_elog |-> Step("print", "", {"c_vacq"}),
     c_vacq |-> Step("acquire", "valve_state", {"c_vout"}),
     c_vout |-> Step("output", "", {"c_vset"}),
     c_vset |-> Step("set", "valve_open", {"c_vlog"}),
     c_vlog |-> Step("print", "", {"c_vrel"}),
     c_vrel |-> Step("release", "valve_state", {"c_esleep"}),
     c_esleep |-> Step("sleep", "", {"c_eout"}),
     c_eout |-> Step("output", "", {"c_oacq"}),
     c_oacq |-> Step("acquire", "obd_data", {"c_ocopy"}),
     c_ocopy |-> Step("read", "obd", {"c_orel"}),
     c_orel |-> Step("release", "obd_data", {"c_aacq", "c_print"}),
     c_aacq |-> Step("acquire", "ai_data", {"c_aw"}),
     c_aw |-> Step("set", "latest", {"c_arel"}),
     c_arel |-> Step("release", "ai_data", {"c_print"}),
     c_print |-> Step("print", "", {"c_d1acq"}),
     c_d1acq |-> Step("acquire", "obd_data", {"c_d1"}),
     c_d1 |-> Step("set", "data", {"c_d1rel"}),
     c_d1rel |-> Step("release", "obd_data", {"c_d2acq"}),
     c_d2acq |-> Step("acquire", "gas_data", {"c_d2"}),
     c_d2 |-> Step("set", "reading", {"c_d2rel"}),
     c_d2rel |-> Step("release", "gas_data", {"c_d3acq"}),
     c_d3acq |-> Step("acquire", "gas_data", {"c_d3"}),
     c_d3 |-> Step("set", "voltage", {"c_d3rel"}),
     c_d3rel |-> Step("release", "gas_data", {"c_d4acq"}),
     c_d4acq |-> Step("acquire", "ai_data", {"c_d4"}),
     c_d4 |-> Step("set", "result", {"c_d4rel"}),
     c_d4rel |-> Step("release", "ai_data", {"c_d5acq"}),
     c_d5acq |-> Step("acquire", "valve_state", {"c_d5"}),
     c_d5 |-> Step("set", "is_open", {"c_d5rel"}),
     c_d5rel |-> Step("release", "valve_state", {"c_sleep"}),
     c_sleep |-> Step("sleep", "", {"c_gacq"})]

\* stop(): the joins, then valve.cleanup() with open_valve, which writes the
\* output only for a closed valve, the sleep and GPIO.cleanup; "end" is the
\* return of stop().
StopProgram ==
    [s_join |-> Step("sleep", "", {"s_vacq"}),
     s_vacq |-> Step("acquire", "valve_state", {"s_vout", "s_vrel"}),
     s_vout |-> Step("output", "", {"s_vset"}),
     s_vset |-> Step("set", "valve_open", {"s_vlog"}),
     s_vlog |-> Step("print", "", {"s_vrel"}),
     s_vrel |-> Step("release", "valve_state", {"s_sleep"}),
     s_sleep |-> Step("sleep", "", {"s_clean"}),
     s_clean |-> Step("output", "", {"s_end"}),
     s_end |-> Step("end", "", {})]

Program == [gas |-> GasProgram, obd |-> ObdProgram, ctl |-> CtlProgram,
            stop |-> StopProgram]
Threads == {"gas", "obd", "ctl", "stop"}
Locks == {"gas_data", "obd_data", "valve_state", "ai_data"}
\* The operations that block or are slow.
SlowOps == {"io", "output", "print", "sleep"}

At(t) == Program[t][l_pc[t]]

coarseVars == <<now, gasVars, valveVars, obdVars, aiVars, auto_shutoff,
                running, mainVars, stopVars, histGas, shutoff_calls, tick_log,
                valveHist>>

\* threading.Lock: acquire waits until no thread holds the lock.
CanAcquire_unlocked(lock) == TRUE

CanAcquire(lock) == holder[lock] = "none"

LockAcquire(t) ==
    /\ At(t).op = "acquire"
    /\ CanAcquire(At(t).arg)
    /\ holder' = [holder EXCEPT ![At(t).arg] = t]
    /\ \E nx \in At(t).next : l_pc' = [l_pc EXCEPT ![t] = nx]
    /\ UNCHANGED <<coarseVars, cycle, cell, snap>>

LockRelease_keepsLock(t) ==
    /\ At(t).op = "release"
    /\ \E nx \in At(t).next : l_pc' = [l_pc EXCEPT ![t] = nx]
    /\ UNCHANGED <<coarseVars, holder, cycle, cell, snap>>

LockRelease(t) ==
    /\ At(t).op = "release"
    /\ holder' = [holder EXCEPT ![At(t).arg] = "none"]
    /\ \E nx \in At(t).next : l_pc' = [l_pc EXCEPT ![t] = nx]
    /\ UNCHANGED <<coarseVars, cycle, cell, snap>>

\* A producer assigns one published field; 'self.latest_data = data' puts a
\* new dict in place, which has no timestamp until the next statement.
FieldWrite(t) ==
    /\ At(t).op = "write"
    /\ cell' = IF At(t).arg = "data"
               THEN [cell EXCEPT !.data = cycle[t], !.ts = 0]
               ELSE [cell EXCEPT ![At(t).arg] = cycle[t]]
    /\ \E nx \in At(t).next : l_pc' = [l_pc EXCEPT ![t] = nx]
    /\ UNCHANGED <<coarseVars, holder, cycle, snap>>

\* The reader loads one field of the gas triple, or copies the dict.
FieldRead(t) ==
    /\ At(t).op = "read"
    /\ snap' = IF At(t).arg = "obd"
               THEN [snap EXCEPT !.data = cell.data, !.ts = cell.ts]
               ELSE [snap EXCEPT ![At(t).arg] = cell[At(t).arg]]
    /\ \E nx \in At(t).next : l_pc' = [l_pc EXCEPT ![t] = nx]
    /\ UNCHANGED <<coarseVars, holder, cycle, cell>>

\* Sensor or bus I/O of a producer: the values of a new update.
ProducerIo(t) ==
    /\ At(t).op = "io"
    /\ t \in DOMAIN cycle
    /\ cycle[t] < MaxCycles
    /\ cycle' = [cycle EXCEPT ![t] = cycle[t] + 1]
    /\ \E nx \in At(t).next : l_pc' = [l_pc EXCEPT ![t] = nx]
    /\ UNCHANGED <<coarseVars, holder, cell, snap>>

\* Sensor or bus I/O of a producer whose updates are no longer numbered.
ProducerIoSteady(t) ==
    /\ At(t).op = "io"
    /\ t \in DOMAIN cycle
    /\ cycle[t] = MaxCycles
    /\ \E nx \in At(t).next : l_pc' = [l_pc EXCEPT ![t] = nx]
    /\ UNCHANGED <<coarseVars, holder, cycle, cell, snap>>

\* Any other statement: an output, a print, a sleep, an assignment.
OtherStep(t) ==
    /\ At(t).op \in {"output", "print", "sleep", "set"}
    /\ \E nx \in At(t).next : l_pc' = [l_pc EXCEPT ![t] = nx]
    /\ UNCHANGED <<coarseVars, holder, cycle, cell, snap>>

InitLocks ==
    /\ l_pc = [gas |-> "g_io", obd |-> "o_io", ctl |-> "c_gacq",
               stop |-> "s_join"]
    /\ holder = [l \in Locks |-> "none"]
    /\ cycle = [gas |-> 0, obd |-> 0]
    /\ cell = [raw |-> 0, filtered |-> 0, status |-> 0, data |-> 0, ts |-> 0]
    /\ snap = [raw |-> 0, filtered |-> 0, status |-> 0, data |-> 0, ts |-> 0]

\* The state after VehicleMonitorSystem.start(): the components constructed,
\* the producer threads and the control loop started.
InitCoarse(cfg) ==
    /\ now = StartTime
    /\ config = cfg
    /\ g_pc = "run" /\ gas_running = TRUE
    /\ readings = <<>>
    /\ critical_start_time = None
    /\ current_value = 0
    /\ filtered_value = [sum |-> 0, n |-> 1]
    /\ status = "SAFE"
    /\ valve_open = TRUE
    /\ gpio_line = IF ~gpio_present THEN "NONE"
                   ELSE IF gpio_ready THEN "OPEN" ELSE "UNSET"
    /\ o_pc = "run" /\ obd_running = TRUE
    /\ latest_data = "empty"
    /\ latest_score = 0 /\ latest_status = "UNKNOWN"
    /\ running = TRUE
    /\ emergency_shutdown = FALSE
    /\ m_pc = "loop"
    /\ current_time = 0
    /\ last_gas_check = 0 /\ last_ai_check = 0 /\ last_display = 0
    /\ s_pc = "run" /\ s_t0 = 0
    /\ run_first = None
    /\ spike = "none"
    /\ shutoff_calls = 0
    /\ tick_log = <<>>
    /\ fault = "none"
    /\ last_run = [gas |-> None, ai |-> None, display |-> None]
    /\ gas_events = {}
    /\ valve_events = 0 /\ valve_changes = 0
    /\ valve_calls = [n |-> 0, last |-> "none"]
    /\ feed = [n |-> 0, due |-> StartTime]

InitWith(cfg) == InitCoarse(cfg) /\ InitLocks

Init ==
    /\ gpio_present \in BOOLEAN
    /\ gpio_ready \in BOOLEAN
    /\ gpio_ready => gpio_present
    /\ auto_shutoff \in BOOLEAN
    /\ InitWith(SmallConfig)

InitGas ==
    /\ gpio_present = TRUE
    /\ gpio_ready = TRUE
    /\ auto_shutoff = TRUE
    /\ InitWith(RefConfig)

\* The passes of the gas thread while self.running holds.
GasLive == (\E raw \in RawValues : GasUpdate(raw)) \/ GasReadFail \/ GasRetry
GasNext == GasLive \/ GasExit

ObdNext == ObdPublish \/ ObdExit

MainNext == MainLoopTest \/ MainGasSkip \/ MainCheckGas \/ MainEmergencyClose
            \/ MainEmergencyReassert \/ MainSetEmergency \/ MainAiSkip
            \/ MainRunAi \/ MainRunAiError \/ MainDisplaySkip \/ MainDisplay
            \/ MainDisplayError

StopNext == StopBegin \/ StopGas \/ StopObd \/ ValveCleanupOpen
            \/ ValveCleanupRelease

GasNextRec == (\E raw \in RawValues : GasUpdateRec(raw)) \/ GasReadFail
              \/ GasRetry

\* The gas monitor alone, fed by the ADC, with the sample history recorded.
NextGas == GasNextRec \/ TickGas
SpecGas == InitGas /\ [][NextGas]_vars

\* The valve alone, after ValveController.__init__, called in any order.
InitValve ==
    /\ gpio_present \in BOOLEAN
    /\ gpio_ready \in BOOLEAN
    /\ gpio_ready => gpio_present
    /\ auto_shutoff = TRUE
    /\ InitWith(RefConfig)
NextValve == CallOpenValve \/ CallCloseValve \/ CallEmergencyShutoff
SpecValve == InitValve /\ [][NextValve]_vars

\* The threads at the level of their lock operations.
NextLocks == \E t \in Threads :
                 \/ LockAcquire(t) \/ LockRelease(t) \/ FieldWrite(t)
                 \/ FieldRead(t) \/ ProducerIo(t) \/ OtherStep(t)
SpecLocks == InitGas /\ [][NextLocks]_vars

\* The lock-level view in its steady state, under fair scheduling: the
\* threads are at the heads of their loops, the producers have made their
\* numbered updates and the reader has copied the last of them; every thread
\* goes on with its next statement, and a thread waiting for a lock that is
\* free again and again gets it.
InitLocksSteady ==
    /\ l_pc = [gas |-> "g_io", obd |-> "o_io", ctl |-> "c_gacq",
               stop |-> "s_join"]
    /\ holder = [l \in Locks |-> "none"]
    /\ cycle = [gas |-> MaxCycles, obd |-> MaxCycles]
    /\ cell = [raw |-> MaxCycles, filtered |-> MaxCycles,
               status |-> MaxCycles, data |-> MaxCycles, ts |-> MaxCycles]
    /\ snap = cell
InitSteady ==
    /\ gpio_present = TRUE
    /\ gpio_ready = TRUE
    /\ auto_shutoff = TRUE
    /\ InitCoarse(RefConfig)
    /\ InitLocksSteady
NextLocksSteady ==
    \E t \in Threads :
        \/ LockAcquire(t) \/ LockRelease(t) \/ FieldWrite(t)
        \/ FieldRead(t) \/ ProducerIoSteady(t) \/ OtherStep(t)
FairSpecLocks ==
    /\ InitSteady
    /\ [][NextLocksSteady]_vars
    /\ \A t \in Threads :
           /\ WF_vars(LockRelease(t) \/ FieldWrite(t) \/ FieldRead(t)
                      \/ ProducerIoSteady(t) \/ OtherStep(t))
           /\ SF_vars(LockAcquire(t))

\* The control loop alone with the clock, the gas status staying SAFE.
TickSched == TickTo(StartTime + SchedHorizon)
NextSched == MainLoopTest \/ MainGasSkip \/ MainCheckGas \/ MainAiSkip
             \/ MainRunAi \/ MainDisplaySkip \/ MainDisplay \/ TickSched
SpecSched == Init /\ [][NextSched]_vars

\* The gas monitor alone, fed the scripted samples; the clock does not run
\* past the latest time at which the next sample is taken.
TickFeed ==
    /\ feed.n = Len(Script) \/ now < feed.due + Jitter
    /\ TickTo(StartTime + FeedHorizon)
NextFeed == FeedSample \/ TickFeed
SpecFeed == InitGas /\ [][NextFeed]_vars

\* Shutdown: the whole system with a telemetry bus that can block, the stop
\* signal arriving early, and every thread and the clock scheduled fairly.
StopSignal == now <= StartTime + StopLatest /\ StopBegin
\* Time passes unit by unit while the stop is awaited and during the first
\* two joins; during the last join, where only the telemetry thread can still
\* run, it passes in one step to the expiry of the join timeout.
TickStop ==
    /\ \/ /\ \/ s_pc = "run" /\ now < StartTime + StopLatest
             \/ s_pc \in {"join_main", "join_gas"} /\ now - s_t0 < StopSlack
          /\ now' = now + 1
       \/ /\ s_pc = "join_obd" /\ now = s_t0
          /\ now' = s_t0 + producer_join_timeout
    /\ UNCHANGED <<sideVars, gasVars, valveVars, obdVars, aiVars, auto_shutoff,
                   running, mainVars, stopVars, histGas, shutoff_calls,
                   tick_log>>

\* The timeout of the join the stopping thread is in.
JoinTimeout == IF s_pc = "join_main" THEN main_join_timeout
               ELSE producer_join_timeout

\* Time as it passes when a thread is held up for long: unit by unit while
\* the stop is awaited, and during a join in one step to the expiry of the
\* join's timeout, the joined thread being free to end before or after.
TickJoin ==
    /\ \/ /\ s_pc = "run" /\ now < StartTime + StopLatest
          /\ now' = now + 1
       \/ /\ s_pc \in {"join_main", "join_gas", "join_obd"}
          /\ now < s_t0 + JoinTimeout
          /\ now' = s_t0 + JoinTimeout
    /\ UNCHANGED <<sideVars, gasVars, valveVars, obdVars, aiVars, auto_shutoff,
                   running, mainVars, stopVars, histGas, shutoff_calls,
                   tick_log>>

\* The gas thread while a leak is present throughout the shutdown.
GasNextStop == (\E raw \in RawValues \ {0} : GasUpdate(raw)) \/ GasReadFail
               \/ GasRetry \/ GasExit
ObdNextStop == ObdNext \/ ObdQueryBlock \/ ObdQueryReturn
StopNextStop == StopSignal \/ StopGas \/ StopObd \/ ValveCleanupOpen
                \/ ValveCleanupRelease
InitStop ==
    /\ gpio_present = TRUE
    /\ gpio_ready = TRUE
    /\ auto_shutoff = TRUE
    /\ InitWith(SmallConfig)
NextStop == GasNextStop \/ ObdNextStop \/ MainNext \/ StopNextStop \/ TickStop
FairStopSpec ==
    /\ InitStop
    /\ [][NextStop]_vars
    /\ WF_vars(GasNextStop) /\ WF_vars(ObdNextStop) /\ WF_vars(MainNext)
    /\ WF_vars(StopNextStop) /\ WF_vars(TickStop)

\* Shutdown with threads that can be held up past the join timeouts, so that
\* valve.cleanup() of the stopping thread can meet an emergency_shutoff of
\* a control loop that is still in its last tick.
NextRace == GasNextStop \/ ObdNext \/ MainNext \/ StopNextStop \/ TickJoin
SpecRace == InitStop /\ [][NextRace]_vars

Next == GasNext \/ ObdNext \/ MainNext \/ StopNext \/ Tick

Spec == Init /\ [][Next]_vars

\* A run in which no stop signal arrives, with every thread and the clock
\* scheduled fairly.
FairNext == GasLive \/ ObdPublish \/ MainNext \/ Tick
FairSpec == /\ Init
            /\ [][FairNext]_vars
            /\ WF_vars(GasLive) /\ WF_vars(MainNext) /\ WF_vars(Tick)

\* ------------------------------------------------------------------ claims
Last(s) == s[Len(s)]
InLog(x) == \E i \in 1..Len(tick_log) : tick_log[i] = x
\* A step of SpecGas that is a gas update (not a clock tick, a failed read
\* or a retry).
IsGasUpdateStep == now' = now /\ g_pc' = g_pc

\* C1: the status an update publishes is CRITICAL only if the filtered values
\* of an unbroken run of updates ending with this one were all >=
\* critical_min and the first update of that run lies at least
\* confirmation_time before this one; so no single reading yields CRITICAL.
C1_CriticalNeedsSustainedRun ==
    [][(IsGasUpdateStep /\ status' = "CRITICAL") =>
          /\ AtLeast(filtered_value', critical_min)
          /\ run_first' # None
          /\ now - run_first' >= config.confirmation_time
          /\ run_first' < now]_vars

C1_Witness == status = "CRITICAL" /\ run_first # None

\* C2: while the raw samples so far are a single-sample spike (one sample >=
\* critical_min, every sample after it < warning_min, none >= critical_min
\* before it), the status is not CRITICAL.
C2_SingleSpikeNeverCritical == spike = "single" => status # "CRITICAL"

\* C3: whenever the status is CRITICAL while the control loop runs, auto
\* shutoff is enabled, no emergency is latched and the clock has not reached
\* the end of the modelled time, eventually the valve is closed and the
\* emergency flag is set.
C3_CriticalLeadsToShutoff ==
    (/\ status = "CRITICAL" /\ running /\ m_pc # "ended" /\ auto_shutoff
     /\ ~emergency_shutdown /\ now < MaxTime)
        ~> (emergency_shutdown /\ ~valve_open)

\* C4: emergency_shutoff is begun only by a gas check that reads CRITICAL with
\* auto_shutoff enabled and no emergency latched; the valve is closed and the
\* flag set only inside that call, and when the check is over the flag is
\* set. So with auto_shutoff disabled, or while no check has read CRITICAL,
\* the valve stays open and the flag false.
C4_ShutoffOnlyByCriticalGasCheck ==
    /\ [](/\ (shutoff_calls = 0 => valve_open /\ ~emergency_shutdown)
          /\ (~auto_shutoff => shutoff_calls = 0)
          /\ (shutoff_calls > 0 /\ m_pc \notin {"close", "reassert", "setflag"}
                 => emergency_shutdown))
    /\ [][/\ (shutoff_calls' # shutoff_calls =>
                 /\ m_pc = "p1" /\ status = "CRITICAL" /\ auto_shutoff
                 /\ ~emergency_shutdown)
          /\ (valve_open /\ ~valve_open' => m_pc = "close")
          /\ (~emergency_shutdown /\ emergency_shutdown' => m_pc = "setflag")
         ]_vars

\* C5: the emergency flag is false at the start and, once true, stays true;
\* after it is set no call of emergency_shutoff is begun and the control
\* loop writes the valve output no more.
C5_EmergencyFlagLatched ==
    /\ emergency_shutdown = FALSE
    /\ [][emergency_shutdown =>
             /\ emergency_shutdown'
             /\ shutoff_calls' = shutoff_calls
             /\ (gpio_line' # gpio_line => s_pc \in {"join_obd", "release"})
         ]_vars

C5_Witness == emergency_shutdown /\ m_pc = "ended" /\ shutoff_calls = 1

\* C6: once emergency_shutoff has closed the valve, the logical valve state
\* is never OPEN again.
C6_ValveLatchedClosed == emergency_shutdown => ~valve_open

\* C7: after the final actuation of the shutdown sequence the valve line is
\* CLOSED if an emergency shutoff was triggered in the run and OPEN if none
\* was.
C7_FinalActuationMatchesEmergency ==
    s_pc = "release" =>
        /\ (emergency_shutdown => gpio_line = "CLOSED")
        /\ (shutoff_calls = 0 /\ gpio_ready => gpio_line = "OPEN")

\* C8 as stated: once the emergency flag is set, no gas check and no anomaly
\* inference begins.
C8_NoDecisioningAfterEmergency ==
    [][emergency_shutdown =>
          ~(tick_log' # tick_log /\ tick_log' # <<>>
            /\ Last(tick_log') \in {"gas", "ai"})]_vars

\* C8 as amended: once the emergency flag is set, no further tick and no
\* further gas check begins; only the anomaly inference and the display step
\* of the tick whose gas check set the flag may still begin.
C8_NoNewTickAfterEmergency ==
    [][emergency_shutdown =>
          /\ InLog("gas")
          /\ m_pc' # "p1"
          /\ (tick_log' # tick_log =>
                 /\ ~InLog("display")
                 /\ \/ tick_log' = Append(tick_log, "ai") /\ ~InLog("ai")
                    \/ tick_log' = Append(tick_log, "display"))]_vars

C8_Witness == emergency_shutdown /\ m_pc = "ended" /\ InLog("ai")

\* C9: after the emergency flag is set and until stop() is invoked, the
\* control loop, which alone runs the display step, is still running.
C9_ReportingContinuesAfterEmergency ==
    (emergency_shutdown /\ s_pc = "run") => m_pc # "ended"

Rank(x) == CASE x = "gas" -> 1 [] x = "ai" -> 2 [] x = "display" -> 3

\* C10: within a tick the sub-tasks begin in the order gas check, anomaly
\* inference, display; while an emergency shutoff is in progress nothing but
\* the gas check has begun in the tick, and when the anomaly inference or
\* the display step of a tick with a gas check has begun, a shutoff begun by
\* that check is complete and the flag set.
C10_GasCheckBeforeAiAndDisplay ==
    /\ \A i, j \in 1..Len(tick_log) :
           i < j => Rank(tick_log[i]) < Rank(tick_log[j])
    /\ (m_pc \in {"close", "reassert", "setflag"} => tick_log = <<"gas">>)
    /\ (InLog("gas") /\ (InLog("ai") \/ InLog("display")) /\ shutoff_calls > 0
           => /\ m_pc \notin {"close", "reassert", "setflag"}
              /\ (emergency_shutdown \/ GpioOutputRaises(gpio_present, gpio_ready)))

C10_Witness ==
    tick_log = <<"gas", "ai", "display">> /\ emergency_shutdown

\* C11: the valve starts OPEN; a close (close_valve or emergency_shutoff) of
\* an OPEN valve closes it with exactly one transition event; a close of a
\* CLOSED valve and an open of an OPEN valve change nothing and log nothing;
\* the events logged are as many as the changes of the valve state.
C11_ValveEventsMatchChanges ==
    /\ [](valve_calls.n = 0 => valve_open /\ valve_events = 0)
    /\ [][valve_calls' # valve_calls =>
            /\ (valve_calls'.last \in {"close", "emergency"} /\ valve_open
                    => ~valve_open' /\ valve_events' = valve_events + 1)
            /\ (valve_calls'.last \in {"close", "emergency"} /\ ~valve_open
                    => ~valve_open' /\ valve_events' = valve_events)
            /\ (valve_calls'.last = "open" /\ valve_open
                    => valve_open' /\ valve_events' = valve_events)
            /\ valve_events' = valve_changes']_vars

C13_NoLockAcrossSlowOperation ==
    \A t \in Threads :
        At(t).op \in SlowOps => \A l \in Locks : holder[l] # t

\* C14: when the actuator cannot be driven (library absent, or its setup
\* failed), a gas check that invoked emergency_shutoff closes the logical
\* valve state and sets the emergency flag, and the control loop ends only
\* on a cleared running flag or a set emergency flag.
C14_LogicalOnlyValveStillShutsOff ==
    /\ (~gpio_ready /\ shutoff_calls > 0 /\ m_pc # "close" => ~valve_open)
    /\ (~gpio_ready /\ shutoff_calls > 0
           /\ m_pc \notin {"close", "reassert", "setflag"}
           => emergency_shutdown)
    /\ (~gpio_ready /\ m_pc = "ended" => ~running \/ emergency_shutdown)

C16_FailedReadChangesNothing ==
    [][/\ (g_pc = "run" /\ g_pc' = "backoff"
              => /\ UNCHANGED <<readings, current_value, filtered_value, status,
                                critical_start_time>>
                 /\ gas_running')
       /\ (g_pc = "backoff" /\ g_pc' # "backoff" => g_pc' = "run")
       /\ (g_pc' = "exited" /\ g_pc # "exited"
              => ~gas_running /\ s_pc # "run")]_vars

C16_Witness ==
    g_pc = "backoff" /\ status = "WARNING" /\ current_value = 1023

Interval(x) == CASE x = "gas" -> gas_check_interval
                 [] x = "ai" -> ai_check_interval
                 [] x = "display" -> display_interval
\* The interval of sub-task x has elapsed in the present tick.
Elapsed(x) == last_run[x] = None \/ (current_time - last_run[x]) >= Interval(x)

\* C17: a sub-task begins in a tick only if its own interval has elapsed
\* since the tick in which it last began (or it never began), and the tick
\* passes a sub-task over only if its interval has not elapsed.
C17_MultiRateSchedule ==
    [][/\ \A x \in {"gas", "ai", "display"} :
              tick_log' = Append(tick_log, x)
                  => Elapsed(x) /\ last_run'[x] = current_time
       /\ (m_pc = "p1" /\ m_pc' = "p2" /\ tick_log' = tick_log
              => ~Elapsed("gas"))
       /\ (m_pc = "p2" /\ m_pc' = "p3" /\ tick_log' = tick_log
              => ~Elapsed("ai"))
       /\ (m_pc = "p3" /\ m_pc' = "loop" /\ tick_log' = tick_log
              => ~Elapsed("display"))]_vars

C17_Witness ==
    /\ tick_log = <<"gas", "ai">> /\ m_pc = "loop"
    /\ current_time >= StartTime + ai_check_interval
    /\ last_run.display = StartTime

\* C18: in the scenario the filtered value is 50 and the status SAFE after
\* the 5 samples of 50; from the 5th sample of 450 on the filtered value is
\* >= 400 and the status is WARNING until 2.0 s have passed since the first
\* filtered value >= 400 and CRITICAL from then on; fed at the nominal rate,
\* the 25 samples of 450 end in CRITICAL.
C18_ScenarioWindowFive ==
    /\ (feed.n = 5 => filtered_value.sum = 50 * filtered_value.n
                        /\ status = "SAFE")
    /\ (feed.n >= 10
           => /\ AtLeast(filtered_value, critical_min)
              /\ run_first # None
              /\ status = IF (feed.due - 1) - run_first >= confirmation_time
                          THEN "CRITICAL" ELSE "WARNING")
    /\ (feed.n = 30 /\ feed.due - 1 = StartTime + 29 => status = "CRITICAL")

\* C19: an update that changes the status to WARNING logs exactly one
\* warning event and no other, one that changes it to CRITICAL logs exactly
\* the confirmed-leak event, and one that leaves the status as it was logs
\* nothing.
C19_StatusEventsOncePerEntry ==
    [][IsGasUpdateStep =>
          /\ (status' = "WARNING" /\ status # "WARNING"
                 => gas_events' \in {{"warning"}, {"detected"}})
          /\ (status' = "CRITICAL" /\ status # "CRITICAL"
                 => gas_events' = {"confirmed"})
          /\ (status' = status => gas_events' = {})]_vars

\* C20: the latest anomaly result has a score in [0,1] (0..100 percent) and
\* the status that classifies this score.
C20_AnomalyResultClassified ==
    /\ latest_score >= 0 /\ latest_score <= 100
    /\ latest_status \in {"NORMAL", "WARNING", "CRITICAL"}
    /\ latest_status = Classify(latest_score)

\* C21: once stop() has been invoked, under fair scheduling stop() runs to its
\* end (past the final valve actuation) and the control loop, the gas thread
\* and the telemetry thread all exit.
C21_StopTerminates ==
    (s_pc # "run") ~> (/\ s_pc = "done"
                       /\ m_pc = "ended"
                       /\ g_pc = "exited"
                       /\ o_pc = "exited")

\* stop() has completed although the telemetry thread, blocked in a query,
\* had not exited when its join timed out.
C21_Witness ==
    /\ s_pc = "done"
    /\ o_pc = "query"
    /\ now - s_t0 >= producer_join_timeout

\* C22: the status a gas update publishes is the one the threshold rule gives
\* for the filtered value it publishes: SAFE exactly below warning_min,
\* WARNING from warning_min up to critical_min, and from critical_min on
\* CRITICAL when the episode has lasted confirmation_time at the update and
\* WARNING otherwise; so a published CRITICAL always stands beside a
\* published filtered value >= critical_min.
C22_StatusFollowsThresholdRule ==
    /\ [](status = "CRITICAL" => AtLeast(filtered_value, critical_min))
    /\ [][IsGasUpdateStep =>
            /\ (status' = "SAFE" <=> ~AtLeast(filtered_value', warning_min))
            /\ ((AtLeast(filtered_value', warning_min)
                    /\ ~AtLeast(filtered_value', critical_min))
                   => status' = "WARNING")
            /\ (AtLeast(filtered_value', critical_min) =>
                    /\ critical_start_time' # None
                    /\ status' = IF (now - critical_start_time')
                                       >= config.confirmation_time
                                  THEN "CRITICAL" ELSE "WARNING")]_vars

\* An update has published WARNING with a filtered value >= critical_min
\* whose episode, begun at an earlier update, is not yet confirmed.
C22_Witness ==
    /\ status = "WARNING"
    /\ AtLeast(filtered_value, critical_min)
    /\ critical_start_time # None
    /\ critical_start_time < now
    /\ current_value = 1023

\* C23: after every gas update the episode start is set exactly when the
\* latest filtered value is >= critical_min, and it is then the time of the
\* first update of the present unbroken run of such values; an update with a
\* lower filtered value clears it.
C23_EpisodeStartTracksRun ==
    /\ (critical_start_time # None <=> AtLeast(filtered_value, critical_min))
    /\ critical_start_time = run_first

\* An episode that began after a low sample and after the start: its start
\* time is that of its own first update.
C23_Witness ==
    /\ critical_start_time # None
    /\ critical_start_time > StartTime
    /\ critical_start_time = run_first
    /\ \E i \in DOMAIN readings : readings[i] = 0
    /\ status = "CRITICAL"

\* A valve operation is in progress: the control loop is inside
\* emergency_shutoff, or the stopping thread is inside cleanup.
ValveOperationInProgress ==
    m_pc \in {"close", "reassert"} \/ s_pc = "release"

\* C24: with an actuator that was set up, whenever no valve operation is in
\* progress the valve line is in the open position exactly when valve_open
\* is true, whatever the interleaving of the control loop's emergency_shutoff
\* (with its second CLOSED output) and the stopping thread's cleanup.
C24_LineAgreesWithValveState ==
    (gpio_ready /\ ~ValveOperationInProgress)
        => (gpio_line = "OPEN" <=> valve_open)

\* The locks thread t holds.
Held(t) == {l \in Locks : holder[l] = t}

\* C25: a thread that is about to acquire a lock holds none, so no thread
\* ever holds two; and under fair scheduling a thread that waits for a lock
\* gets it, be it the control loop, a producer or the stopping thread.
C25_NoNestingNoDeadlock ==
    /\ [](\A t \in Threads :
              /\ Cardinality(Held(t)) <= 1
              /\ (At(t).op = "acquire" => Held(t) = {}))
    /\ \A t \in Threads :
           (At(t).op = "acquire") ~> (Held(t) # {})

\* The stopping thread waits for state_lock while the control loop holds it
\* inside close_valve and the gas thread holds its data_lock.
C25_Witness ==
    /\ l_pc.stop = "s_vacq"
    /\ holder["valve_state"] = "ctl"
    /\ holder["gas_data"] = "gas"

====
